---- MODULE Spec2Model ----
(***************************************************************************)
(* Model of tgbot_template_v3:                                             *)
(*   - tgbot/middlewares/throttling.py  ThrottlingMiddleware.__call__      *)
(*     over cachetools.TTLCache stores (class attribute `caches`);         *)
(*   - infrastructure/database/repo/users.py  UserRepo.get_or_create_user  *)
(*     (PostgreSQL INSERT ... ON CONFLICT DO UPDATE ... RETURNING).        *)
(*                                                                         *)
(* Time is a discrete monotonic clock (time.monotonic in whole ticks).     *)
(* Every invocation of the middleware is a task of the asyncio event loop: *)
(* it runs without interruption from one suspension point to the next.     *)
(***************************************************************************)
EXTENDS Integers, Sequences, FiniteSets, TLC

\* ------------------------------------------------------------------ bounds
\* Last value of the clock.
MaxTime == 2
\* Number of middleware invocations (events dispatched) in one behaviour.
NumTasks == 3
\* Number of distinct chat ids.
NumChats == 2
\* maxsize of every TTLCache of the model (10_000 in the source, scaled down
\* so that the store fills up).
maxsize == 1
\* ttl of the second registered cache of the registries that have one.
SlowTtl == 3
\* Number of middleware invocations under the other registries.
PolicyTasks == 3
\* Number of get_or_create_user calls in one behaviour.
NumCalls == 2
\* Number of user ids.
NumUsers == 2

\* ------------------------------------------------------- program constants
\* TTLCache(maxsize=10_000, ttl=2) of the 'default' cache.
ttl == 2
\* @rate_limit(key="default", rate=5) of the documented example.
DocRate == 5

\* ------------------------------------------------------------------- state
VARIABLES
    now,        \* the monotonic clock
    caches,     \* ThrottlingMiddleware.caches: key -> TTLCache
    tasks,      \* the invocations of __call__, in the order they were dispatched
    table,      \* the users table (committed rows): user_id -> row or NoRow
    session,    \* the AsyncSession: the uncommitted view of the table, or NoTx
    calls       \* the calls of get_or_create_user, in order

vars == <<now, caches, tasks, table, session, calls>>
throttleVars == <<now, caches, tasks>>
userVars == <<table, session, calls>>

Chats == 1..NumChats

\* ------------------------------------------------------------- TTLCache
\* A TTLCache is [ttl, links]: links is the list of (key, expires) links in
\* the order of the cache's linked list / OrderedDict (oldest first).
NewCache(w) == [ttl |-> w, links |-> << >>]

Keys(links) == {links[i].key : i \in 1..Len(links)}

\* TTLCache.__contains__: the key has a link and timer() < link.expires.
ContainsInclusive(c, k, t) ==
    \E i \in 1..Len(c.links) : c.links[i].key = k /\ t <= c.links[i].expires
Contains(c, k, t) ==
    \E i \in 1..Len(c.links) : c.links[i].key = k /\ t < c.links[i].expires

\* TTLCache.expire: unlink from the head while not (time < curr.expires).
RECURSIVE Expire(_, _)
Expire(links, t) ==
    IF links # << >> /\ ~(t < Head(links).expires)
    THEN Expire(Tail(links), t)
    ELSE links

\* TTLCache.popitem (after expire): removes the first key of the links.
PopItem(links) == Tail(links)

\* Cache.__setitem__'s loop: while currsize + size > maxsize: popitem().
MakeRoomOffByOne(links) ==
    IF Len(links) > maxsize THEN PopItem(links) ELSE links
RECURSIVE MakeRoom(_)
MakeRoom(links) ==
    IF Len(links) + 1 > maxsize THEN MakeRoom(PopItem(links)) ELSE links

Without(links, k) == SelectSeq(links, LAMBDA l : l.key # k)

\* TTLCache.__setitem__: expire, make room for a new key, (re)link at the end
\* with expires = time + ttl.
SetItem(c, k, t) ==
    LET live == Expire(c.links, t)
        room == IF k \in Keys(live) THEN live ELSE MakeRoom(live)
    IN  [c EXCEPT !.links = Append(Without(room, k),
                                   [key |-> k, expires |-> t + c.ttl])]

\* The keys whose unexpired links a __setitem__ of k at t removes.
Evicted(c, k, t) ==
    (Keys(Expire(c.links, t)) \ Keys(SetItem(c, k, t).links)) \ {k}

\* Lines 76-82 of __call__: a chat id found in the cache is throttled and the
\* cache is not written; otherwise the chat id is inserted.
DecideNoMark(c, k, t) ==
    IF Contains(c, k, t)
    THEN [admit |-> FALSE, cache |-> c]
    ELSE [admit |-> TRUE, cache |-> c]
DecideSliding(c, k, t) ==
    IF Contains(c, k, t)
    THEN [admit |-> FALSE, cache |-> SetItem(c, k, t)]
    ELSE [admit |-> TRUE, cache |-> SetItem(c, k, t)]
Decide(c, k, t) ==
    IF Contains(c, k, t)
    THEN [admit |-> FALSE, cache |-> c]
    ELSE [admit |-> TRUE, cache |-> SetItem(c, k, t)]

\* ----------------------------------------------------------- the flags
\* get_flag(data, "rate_limit"): None, or a dict with an optional "key" and
\* a "rate".
NoKey == "<absent>"
NoFlag == [has |-> FALSE, key |-> NoKey, rate |-> 0]
RateLimit(k, r) == [has |-> TRUE, key |-> k, rate |-> r]
Flags == {NoFlag, RateLimit("default", DocRate), RateLimit(NoKey, DocRate),
          RateLimit("slow", DocRate), RateLimit("other", DocRate)}

\* throttling_key.get("key", "default")
CacheKey(flag) == IF flag.key = NoKey THEN "default" ELSE flag.key

\* self.caches.get(cache_key, self.caches["default"]): the fallback argument
\* is evaluated before the lookup, so it raises KeyError when 'default' is
\* not registered, whatever cache_key is.
KeyErr == "KeyError"
Resolve(reg, flag) ==
    IF "default" \notin DOMAIN reg THEN KeyErr
    ELSE IF CacheKey(flag) \in DOMAIN reg THEN CacheKey(flag)
    ELSE "default"

\* The downstream handler: its result is a function of the event and data it
\* is called with.
HandlerArgs(chat, flag) == [event |-> chat, data |-> flag]
NoArgs == [event |-> 0, data |-> NoFlag]
HandlerResult(args) == [reply_to |-> args.event, flags |-> args.data]
\* The value of a bare `return`.
None == [reply_to |-> 0, flags |-> NoFlag]

\* ---------------------------------------------------------------- tasks
\* pc: "start" (scheduled), "handler" (suspended in `await handler`),
\*     "done" (returned), "raised" (ended with an exception).
\* Bookkeeping of the run: ord is the position of the task's rate-limit
\* decision among all decisions (0: none), t its time, cache the resolved
\* cache key, admitted its outcome, evicted the chat ids its insertion
\* removed while unexpired, fresh whether the chat id had never been decided
\* on under that cache when the task was dispatched, hcalls the number of
\* handler calls, hargs the arguments of the handler call.
NewTask(chat, flag, fresh) ==
    [chat |-> chat, flag |-> flag, pc |-> "start", ord |-> 0, t |-> 0,
     cache |-> "-", admitted |-> FALSE, evicted |-> {}, fresh |-> fresh,
     hcalls |-> 0, hargs |-> NoArgs, ret |-> None]

TaskIds == 1..Len(tasks)
Decided(i) == tasks[i].ord > 0
NumDecided == Cardinality({i \in TaskIds : Decided(i)})

\* Registries of caches: the one of the source, one with a second cache, and
\* one without 'default'.
Registries ==
    { [k \in {"default"} |-> NewCache(ttl)],
      [k \in {"default", "slow"} |->
          IF k = "default" THEN NewCache(ttl) ELSE NewCache(SlowTtl)],
      [k \in {"slow"} |-> NewCache(SlowTtl)] }

\* The registry of the source: caches = {"default": TTLCache(10_000, 2)}.
SourceRegistry == [k \in {"default"} |-> NewCache(ttl)]

ThrottleInit ==
    /\ now = 0
    /\ caches = SourceRegistry
    /\ tasks = << >>

\* The flag of the documented usage: every handler is rate-limited under the
\* 'default' policy (events of unflagged handlers go straight to the handler
\* and never touch a cache; SpecPolicy below has them).
SourceFlags == {RateLimit("default", DocRate)}

\* The clock advances.
Tick ==
    /\ now < MaxTime
    /\ now' = now + 1
    /\ UNCHANGED <<caches, tasks, userVars>>

\* The dispatcher schedules __call__ for a new event.  Chat ids are
\* interchangeable: a new chat id is the smallest one not yet used.
UsedChats == {tasks[i].chat : i \in TaskIds}
Dispatch(chat, flag, limit) ==
    /\ Len(tasks) < limit
    /\ \A c \in Chats : c < chat => c \in UsedChats
    /\ LET key == Resolve(caches, flag)
           fresh == /\ flag.has
                    /\ ~\E j \in TaskIds :
                          Decided(j) /\ tasks[j].cache = key /\ tasks[j].chat = chat
       IN  tasks' = Append(tasks, NewTask(chat, flag, fresh))
    /\ UNCHANGED <<now, caches, userVars>>

\* __call__ from its start to its first suspension point or return
\* (lines 66-85): no await lies between the membership test and the insert.
Call(i) ==
    /\ tasks[i].pc = "start"
    /\ LET tk == tasks[i]
           key == Resolve(caches, tk.flag)
       IN  IF ~tk.flag.has
           THEN /\ tasks' = [tasks EXCEPT ![i] =
                        [tk EXCEPT !.pc = "handler", !.hcalls = @ + 1,
                                   !.hargs = HandlerArgs(tk.chat, tk.flag)]]
                /\ UNCHANGED caches
           ELSE IF key = KeyErr
           THEN /\ tasks' = [tasks EXCEPT ![i] =
                        [tk EXCEPT !.pc = "raised", !.cache = KeyErr]]
                /\ UNCHANGED caches
           ELSE LET d == Decide(caches[key], tk.chat, now)
                IN  /\ caches' = [caches EXCEPT ![key] = d.cache]
                    /\ tasks' = [tasks EXCEPT ![i] =
                          IF d.admit
                          THEN [tk EXCEPT !.pc = "handler",
                                    !.ord = NumDecided + 1,
                                    !.t = now, !.cache = key,
                                    !.admitted = TRUE,
                                    !.evicted = Evicted(caches[key], tk.chat, now),
                                    !.hcalls = @ + 1,
                                    !.hargs = HandlerArgs(tk.chat, tk.flag)]
                          ELSE [tk EXCEPT !.pc = "done",
                                    !.ord = NumDecided + 1,
                                    !.t = now, !.cache = key,
                                    !.admitted = FALSE, !.ret = None]]
    /\ UNCHANGED <<now, userVars>>

\* The awaited handler completes and __call__ returns its result.
HandlerReturnDropsResult(i) ==
    /\ tasks[i].pc = "handler"
    /\ tasks' = [tasks EXCEPT ![i] = [tasks[i] EXCEPT !.pc = "done", !.ret = None]]
    /\ UNCHANGED <<now, caches, userVars>>
HandlerReturn(i) ==
    /\ tasks[i].pc = "handler"
    /\ tasks' = [tasks EXCEPT ![i] =
            [tasks[i] EXCEPT !.pc = "done", !.ret = HandlerResult(tasks[i].hargs)]]
    /\ UNCHANGED <<now, caches, userVars>>

\* ------------------------------------------------------------- UserRepo
UserIds == 1..NumUsers
\* username=None (the parameter's default) is stored as NULL.
Null == "NULL"
Usernames == {Null, "ann", "bob"}
FullNames == {"A", "B"}
Languages == {"en", "fa"}
NoRow == [exists |-> FALSE, username |-> Null, full_name |-> "", language |-> ""]
Args == [user_id : UserIds, username : Usernames,
         full_name : FullNames, language : Languages]

\* insert(User).values(user_id, username, full_name, language)
\*   .on_conflict_do_update(index_elements=[user_id],
\*                          set_=dict(username=username, full_name=full_name))
Upsert(rows, a) ==
    IF rows[a.user_id].exists
    THEN [rows EXCEPT ![a.user_id].username = a.username,
                      ![a.user_id].full_name = a.full_name]
    ELSE [rows EXCEPT ![a.user_id] =
              [exists |-> TRUE, username |-> a.username,
               full_name |-> a.full_name, language |-> a.language]]

\* pc of a call: "execute", "commit", "extract", "rollback", "done".
\* before/after: the row of user_id before the statement and after the
\* commit; error: the exception caught; outcome: "returned" or "raised".
NewCall(a, row) ==
    [args |-> a, pc |-> "execute", before |-> row, after |-> NoRow,
     result |-> NoRow, error |-> "", outcome |-> "-", ret |-> NoRow,
     rolledback |-> FALSE]

CallIds == 1..Len(calls)

UserInit ==
    /\ table \in [UserIds -> {NoRow,
                    [exists |-> TRUE, username |-> "ann",
                     full_name |-> "A", language |-> "en"]}]
    /\ session = [intx |-> FALSE, rows |-> table]
    /\ calls = << >>

\* get_or_create_user is called (one call at a time on the session).
GetOrCreateUser(a) ==
    /\ Len(calls) < NumCalls
    /\ \A c \in CallIds : calls[c].pc = "done"
    /\ calls' = Append(calls, NewCall(a, table[a.user_id]))
    /\ UNCHANGED <<table, session, throttleVars>>

\* await self.session.execute(insert_stmt), line 47.
Execute(c) ==
    /\ calls[c].pc = "execute"
    /\ session' = [intx |-> TRUE, rows |-> Upsert(session.rows, calls[c].args)]
    /\ calls' = [calls EXCEPT ![c].pc = "commit",
                              ![c].result = session'.rows[calls[c].args.user_id]]
    /\ UNCHANGED <<table, throttleVars>>

\* session.execute raises SQLAlchemyError.
ExecuteFails(c) ==
    /\ calls[c].pc = "execute"
    /\ calls' = [calls EXCEPT ![c].pc = "rollback",
                              ![c].error = "SQLAlchemyError"]
    /\ UNCHANGED <<table, session, throttleVars>>

\* await self.session.commit(), line 49.
Commit(c) ==
    /\ calls[c].pc = "commit"
    /\ table' = session.rows
    /\ session' = [intx |-> FALSE, rows |-> session.rows]
    /\ calls' = [calls EXCEPT ![c].pc = "extract",
                              ![c].after = session.rows[calls[c].args.user_id]]
    /\ UNCHANGED throttleVars

\* session.commit raises SQLAlchemyError.
CommitFails(c) ==
    /\ calls[c].pc = "commit"
    /\ calls' = [calls EXCEPT ![c].pc = "rollback",
                              ![c].error = "SQLAlchemyError"]
    /\ UNCHANGED <<table, session, throttleVars>>

\* return result.scalar_one(), line 50.
ScalarOne(c) ==
    /\ calls[c].pc = "extract"
    /\ calls' = [calls EXCEPT ![c].pc = "done", ![c].outcome = "returned",
                              ![c].ret = calls[c].result]
    /\ UNCHANGED <<table, session, throttleVars>>

\* The except clauses, lines 51-62: rollback, log, raise Exception.
Rollback(c) ==
    /\ calls[c].pc = "rollback"
    /\ session' = [intx |-> FALSE, rows |-> table]
    /\ calls' = [calls EXCEPT ![c].pc = "done", ![c].outcome = "raised",
                              ![c].rolledback = TRUE]
    /\ UNCHANGED <<table, throttleVars>>

\* No user is stored and no call is made.
UserIdle ==
    /\ table = [u \in UserIds |-> NoRow]
    /\ session = [intx |-> FALSE, rows |-> table]
    /\ calls = << >>

Init == ThrottleInit /\ UserIdle

Next ==
    \/ Tick
    \/ \E chat \in Chats, flag \in SourceFlags : Dispatch(chat, flag, NumTasks)
    \/ \E i \in TaskIds : Call(i)
    \/ \E i \in TaskIds : HandlerReturn(i)

Spec == Init /\ [][Next]_vars

\* The middleware under registries and flags other than the source's.
PolicyInit ==
    /\ now = 0
    /\ caches \in Registries
    /\ tasks = << >>
    /\ UserIdle

PolicyNext ==
    \/ Tick
    \/ \E chat \in Chats, flag \in Flags : Dispatch(chat, flag, PolicyTasks)
    \/ \E i \in TaskIds : Call(i)
    \/ \E i \in TaskIds : HandlerReturn(i)

SpecPolicy == PolicyInit /\ [][PolicyNext]_vars

\* UserRepo.get_or_create_user on its session.
UserNext ==
    \/ \E a \in Args : GetOrCreateUser(a)
    \/ \E c \in CallIds : Execute(c)
    \/ \E c \in CallIds : ExecuteFails(c)
    \/ \E c \in CallIds : Commit(c)
    \/ \E c \in CallIds : CommitFails(c)
    \/ \E c \in CallIds : ScalarOne(c)
    \/ \E c \in CallIds : Rollback(c)

UsersInit == ThrottleInit /\ UserInit

SpecUsers == UsersInit /\ [][UserNext]_vars

\* ---------------------------------------------------------------- history
\* The rate-limit decisions of a run, read off the tasks.
Window(i) == caches[tasks[i].cache].ttl
DecidedIds == {i \in TaskIds : Decided(i)}
SameSubject(i, j) ==
    /\ Decided(i) /\ Decided(j)
    /\ tasks[i].cache = tasks[j].cache
    /\ tasks[i].chat = tasks[j].chat
\* The chat id of i was evicted (removed while unexpired) by an insertion
\* decided after i and before j.
EvictedBetween(i, j) ==
    \E k \in DecidedIds :
        /\ tasks[i].ord < tasks[k].ord /\ tasks[k].ord < tasks[j].ord
        /\ tasks[k].cache = tasks[i].cache
        /\ tasks[i].chat \in tasks[k].evicted
\* i is the last admission of j's (cache, chat id) before j's decision.
LastAdmissionBefore(i, j) ==
    /\ SameSubject(i, j)
    /\ tasks[i].admitted
    /\ tasks[i].ord < tasks[j].ord
    /\ ~\E k \in DecidedIds :
          /\ SameSubject(i, k) /\ tasks[k].admitted
          /\ tasks[i].ord < tasks[k].ord /\ tasks[k].ord < tasks[j].ord

\* C1: once an event of (policy, chat id) is admitted at time t, every later
\* rate-limited event of the same (policy, chat id) at t' < t + window is
\* suppressed unless the chat id was evicted in between, and an event at
\* t' >= t + window is admitted again.
C1_WindowSuppressesThenReadmits ==
    \A i, j \in DecidedIds :
        LastAdmissionBefore(i, j) =>
            /\ (tasks[j].t < tasks[i].t + Window(i) /\ ~EvictedBetween(i, j))
                  => ~tasks[j].admitted
            /\ tasks[j].t >= tasks[i].t + Window(i) => tasks[j].admitted

\* An admission, a suppressed event inside the window, and an admission of
\* the same chat id exactly when the window has elapsed.
C1_Witness ==
    \E i, j, k \in DecidedIds :
        /\ LastAdmissionBefore(i, j) /\ ~tasks[j].admitted
        /\ LastAdmissionBefore(i, k) /\ tasks[k].admitted
        /\ tasks[j].t < tasks[i].t + Window(i)
        /\ tasks[k].t = tasks[i].t + Window(i)

\* C2: of the invocations for one policy and one never-before-seen chat id
\* that are pending together and decide within one window (the chat id not
\* being evicted meanwhile), exactly one is admitted, whatever the
\* interleaving, also while the admitted one still awaits its handler.
FreshBatch(i) ==
    {j \in DecidedIds : tasks[j].fresh /\ SameSubject(i, j)}
WithinOneWindow(B) ==
    \A j, k \in B :
        tasks[j].ord < tasks[k].ord =>
            /\ tasks[k].t < tasks[j].t + Window(j)
            /\ ~EvictedBetween(j, k)
LiveEntry(key, chat) ==
    \E n \in 1..Len(caches[key].links) :
        /\ caches[key].links[n].key = chat
        /\ now < caches[key].links[n].expires
C3_Step ==
    \A i \in TaskIds :
        (/\ tasks[i].pc = "start" /\ tasks[i].flag.has
         /\ i \in 1..Len(tasks') /\ tasks'[i].pc # "start") =>
            IF LiveEntry(CacheKey(tasks[i].flag), tasks[i].chat)
            THEN /\ tasks'[i].pc = "done" /\ tasks'[i].hcalls = 0
                 /\ tasks'[i].ret = None /\ caches' = caches
            ELSE /\ tasks'[i].pc = "handler" /\ tasks'[i].hcalls = 1
                 /\ tasks'[i].hargs = HandlerArgs(tasks[i].chat, tasks[i].flag)
C3_Result ==
    \A i \in TaskIds :
        /\ tasks[i].hcalls <= 1
        /\ (tasks[i].pc = "done" /\ tasks[i].hcalls = 1) =>
              tasks[i].ret = [reply_to |-> tasks[i].chat, flags |-> tasks[i].flag]
C3_ThrottledSkipsHandlerElseCalledOnce ==
    [][C3_Step]_vars /\ []C3_Result

\* One rate-limited event was suppressed and another one has returned its
\* handler's result.
C3_Witness ==
    \E i, j \in DecidedIds :
        /\ ~tasks[i].admitted /\ tasks[i].pc = "done"
        /\ tasks[j].admitted /\ tasks[j].pc = "done"

\* C4: a store never holds more than maxsize entries; an insertion into a
\* store full of live entries evicts exactly the oldest-inserted chat id, and
\* the next event of the evicted chat id is admitted although its window has
\* not elapsed.
\* The chat id of admission m is still in the store, unexpired, when k is
\* decided.
HeldBefore(m, k) ==
    /\ Decided(m) /\ tasks[m].admitted
    /\ tasks[m].cache = tasks[k].cache
    /\ tasks[m].ord < tasks[k].ord
    /\ tasks[k].t < tasks[m].t + Window(m)
    /\ ~EvictedBetween(m, k)
    /\ ~\E x \in DecidedIds :
          /\ SameSubject(m, x) /\ tasks[x].admitted
          /\ tasks[m].ord < tasks[x].ord /\ tasks[x].ord < tasks[k].ord
C5_HandlerAtMostOncePerRate ==
    \A i, j \in DecidedIds :
        (/\ LastAdmissionBefore(i, j) /\ tasks[j].admitted
         /\ ~EvictedBetween(i, j)
         /\ tasks[i].flag = RateLimit("default", DocRate)
         /\ tasks[j].flag = RateLimit("default", DocRate))
            => tasks[j].t >= tasks[i].t + tasks[j].flag.rate

\* C6: a step that suppresses an event leaves every cache unchanged, and the
\* chat id is admitted at (time of its last admission) + window however many
\* suppressed events came in between.
C6_Step ==
    \A i \in TaskIds :
        (/\ tasks[i].pc = "start"
         /\ i \in 1..Len(tasks') /\ tasks'[i].ord > 0 /\ ~tasks'[i].admitted)
            => caches' = caches
C6_Readmit ==
    \A i, j \in DecidedIds :
        (LastAdmissionBefore(i, j) /\ tasks[j].t = tasks[i].t + Window(i))
            => tasks[j].admitted
C6_SuppressionDoesNotRefresh ==
    [][C6_Step]_vars /\ []C6_Readmit

\* An admission at t, a suppressed event later inside the window, and an
\* admission at t + window (before the suppressed event's own window ends).
C6_Witness ==
    \E i, j, k \in DecidedIds :
        /\ LastAdmissionBefore(i, j) /\ ~tasks[j].admitted
        /\ tasks[j].t > tasks[i].t
        /\ LastAdmissionBefore(i, k) /\ tasks[k].admitted
        /\ tasks[k].t = tasks[i].t + Window(i)
        /\ tasks[k].t < tasks[j].t + Window(i)

C8_OnlyProvidedFieldsUpdated ==
    \A c \in CallIds :
        calls[c].pc \in {"extract", "done"} /\ calls[c].outcome # "raised" =>
            IF calls[c].before.exists
            THEN calls[c].args.username = Null =>
                    calls[c].after.username = calls[c].before.username
            ELSE calls[c].after =
                    [exists |-> TRUE, username |-> calls[c].args.username,
                     full_name |-> calls[c].args.full_name,
                     language |-> calls[c].args.language]

\* C9: a call whose transaction failed returns None after the rollback.
C9_ReturnsNoneOnError ==
    \A c \in CallIds :
        (calls[c].pc = "done" /\ calls[c].error # "") =>
            /\ calls[c].rolledback
            /\ calls[c].outcome = "returned"
            /\ calls[c].ret = NoRow
====
